---- MODULE Spec2Model ----
(***************************************************************************)
(* Evacuation simulation (src/src/simulation.py): the editable grid, the   *)
(* exit distance field, fire / smoke / temperature propagation, the agent  *)
(* health update and the movement resolver of main()'s frame loop. The     *)
(* zoom keys, the save key and the drawing are left out.                   *)
(***************************************************************************)
EXTENDS Integers, Sequences, FiniteSets, TLC

(***************************************************************************)
(* Bounds of the model.                                                    *)
(***************************************************************************)
\* grid_width and grid_height are typed in by the user at start-up
GridWidth == 3
GridHeight == 2
\* editing clicks over one behaviour; a loaded layout is not edited further
MaxClicks == 2
\* ticks of one run under Spec
MaxTick == 3
\* presses of SPACE over one behaviour
MaxSpace == 3
\* menu key presses over one behaviour
MaxKeys == 5
\* ticks of one run of SpecEvac: more than the longest way out of the grid
\* and a wait at the exit take
EvacTicks == 5
\* ticks of one run under SpecTally: smoke spreads at tick 25
TallyTicks == 26
\* ticks of one run under SpecRun (beyond FIRE_SPREAD_DELAY)
RunTicks == 71
\* significand bits kept by the model's binary floating point (the build: 53)
Precision == 13

(***************************************************************************)
(* Program constants.                                                      *)
(***************************************************************************)
EMPTY == 0
WALL == 1
EXIT == 2
FIRE == 3
SMOKE == 4

MODE_WALL == 1
MODE_AGENT == 2
MODE_EXIT == 3
MODE_FIRE == 4

HEALTHY == 0
INJURED == 1
FATALLY_INJURED == 2
INCAPACITATED == 3

FIRE_SPREAD_DELAY == 70
SMOKE_SPREAD_DELAY == 25
EXIT_CAPACITY_PER_TICK == 1

Cells == (0 .. GridWidth - 1) \X (0 .. GridHeight - 1)

\* float("inf") of the distance map: larger than every path length of the grid
INF == GridWidth * GridHeight + 1

\* the neighbour offsets, in the order every loop of the source lists them
Dirs == << <<1, 0>>, <<-1, 0>>, <<0, 1>>, <<0, -1>> >>

in_bounds(x, y) == 0 <= x /\ x < GridWidth /\ 0 <= y /\ y < GridHeight

\* the in-bounds neighbours of c, in the order of Dirs
Neighbours(c) ==
    SelectSeq([i \in 1 .. 4 |-> <<c[1] + Dirs[i][1], c[2] + Dirs[i][2]>>],
              LAMBDA n : in_bounds(n[1], n[2]))

Range(s) == {s[i] : i \in DOMAIN s}

(***************************************************************************)
(* Python floats: binary floating point, round to nearest, ties to even.   *)
(* A value is m * 2^e with m = 0 or 2^(Precision-1) <= |m| < 2^Precision.  *)
(***************************************************************************)
Pow2(n) == 2 ^ n

Abs(n) == IF n < 0 THEN -n ELSE n

Sgn(n) == IF n < 0 THEN -1 ELSE 1

BitLen(a) ==
    IF a = 0 THEN 0 ELSE CHOOSE L \in 1 .. 31 : Pow2(L - 1) <= a /\ a \div 2 < Pow2(L - 1)

FZero == [m |-> 0, e |-> 0]

\* the float nearest to N * 2^E
FRound(N, E) ==
    LET a == Abs(N)
        L == BitLen(a)
    IN  IF N = 0 THEN FZero
        ELSE IF L <= Precision
        THEN [m |-> N * Pow2(Precision - L), e |-> E - (Precision - L)]
        ELSE LET sh == L - Precision
                 q == a \div Pow2(sh)
                 r == a % Pow2(sh)
                 half == Pow2(sh - 1)
                 q1 == IF r > half \/ (r = half /\ q % 2 = 1) THEN q + 1 ELSE q
             IN  IF q1 = Pow2(Precision)
                 THEN [m |-> Sgn(N) * Pow2(Precision - 1), e |-> E + sh + 1]
                 ELSE [m |-> Sgn(N) * q1, e |-> E + sh]

FInt(n) == FRound(n, 0)

FMul(a, b) == FRound(a.m * b.m, a.e + b.e)

FNeg(a) == [m |-> -a.m, e |-> a.e]

FAdd(a, b) ==
    IF a.m = 0 THEN b
    ELSE IF b.m = 0 THEN a
    ELSE LET hi == IF a.e >= b.e THEN a ELSE b
             lo == IF a.e >= b.e THEN b ELSE a
             d == hi.e - lo.e
         IN  IF d <= Precision + 2
             THEN FRound(hi.m * Pow2(d) + lo.m, lo.e)
             ELSE FRound(hi.m * 8 + Sgn(lo.m), hi.e - 3)

FSub(a, b) == FAdd(a, FNeg(b))

FDiv(a, b) ==
    IF a.m = 0 THEN FZero
    ELSE LET k == Precision + 2
             n == Abs(a.m) * Pow2(k)
             q == n \div Abs(b.m)
             r == n % Abs(b.m)
         IN  FRound(Sgn(a.m) * Sgn(b.m) * (2 * q + (IF r = 0 THEN 0 ELSE 1)),
                    a.e - b.e - k - 1)

\* a >= b and a > b on floats: the sign of the difference
FGeq(a, b) == FSub(a, b).m >= 0

FGt(a, b) == FSub(a, b).m > 0

\* the decimal literal n/d
FLit(n, d) == FDiv(FInt(n), FInt(d))

AMBIENT_TEMP == FInt(20)
FIRE_TEMP == FInt(600)
THERMAL_DIFFUSIVITY == FLit(5, 100)
WALL_INSULATION == FLit(3, 10)
SAFE_TEMP_THRESHOLD == FInt(50)
cooling_rate == FLit(2, 100)

(***************************************************************************)
(* compute_distance_map: breadth-first search from the exits.              *)
(***************************************************************************)
\* line 223: a neighbour is entered when it is no wall and still unreached
BfsOpenNoWallTest(g, d, n) == d[n] = INF

BfsOpen(g, d, n) == g[n] # WALL /\ d[n] = INF

\* the inner for loop: st = [q, d] after neighbours i.. of c are tried
RECURSIVE BfsExpand(_, _, _, _)
BfsExpand(g, c, nb, st) ==
    IF nb = <<>> THEN st
    ELSE LET n == Head(nb)
         IN  IF BfsOpen(g, st.d, n)
             THEN BfsExpand(g, c, Tail(nb),
                            [q |-> Append(st.q, n),
                             d |-> [st.d EXCEPT ![n] = st.d[c] + 1]])
             ELSE BfsExpand(g, c, Tail(nb), st)

\* the while loop: q.popleft() until the queue is empty
RECURSIVE BfsLoop(_, _)
BfsLoop(g, st) ==
    IF st.q = <<>> THEN st.d
    ELSE LET c == Head(st.q)
         IN  BfsLoop(g, BfsExpand(g, c, Neighbours(c), [q |-> Tail(st.q), d |-> st.d]))

\* the seeding loop: every listed exit gets 0 and joins the queue
RECURSIVE BfsSeed(_, _)
BfsSeed(ex, st) ==
    IF ex = <<>> THEN st
    ELSE BfsSeed(Tail(ex), [q |-> Append(st.q, Head(ex)),
                            d |-> [st.d EXCEPT ![Head(ex)] = 0]])

compute_distance_map(ex, g) ==
    BfsLoop(g, BfsSeed(ex, [q |-> <<>>, d |-> [c \in Cells |-> INF]]))

(***************************************************************************)
(* diffuse_temperature: one explicit finite-difference step.               *)
(***************************************************************************)
diffusion_factor(g, n) ==
    IF g[n] = WALL THEN FMul(THERMAL_DIFFUSIVITY, WALL_INSULATION)
    ELSE THERMAL_DIFFUSIVITY

\* neighbors_sum and neighbor_count, accumulated in the order of the loop
RECURSIVE NeighbourSums(_, _, _, _)
NeighbourSums(t, g, nb, acc) ==
    IF nb = <<>> THEN acc
    ELSE LET n == Head(nb)
             f == diffusion_factor(g, n)
         IN  NeighbourSums(t, g, Tail(nb),
                           [sum |-> FAdd(acc.sum, FMul(t[n], f)),
                            cnt |-> FAdd(acc.cnt, f)])

\* lines 234-257 for one cell
DiffuseCell(t, g, c) ==
    IF g[c] = FIRE THEN FIRE_TEMP
    ELSE LET acc == NeighbourSums(t, g, Neighbours(c), [sum |-> FZero, cnt |-> FZero])
         IN  IF acc.cnt.m > 0
             THEN LET avg == FDiv(acc.sum, acc.cnt)
                      v == FAdd(t[c], FSub(avg, t[c]))
                  IN  FAdd(v, FMul(FSub(AMBIENT_TEMP, v), cooling_rate))
             ELSE t[c]

diffuse_temperature(t, g) == [c \in Cells |-> DiffuseCell(t, g, c)]

(***************************************************************************)
(* spread_fire_and_smoke: both proposals lists are filled from the grid as *)
(* it is before the list is applied.                                       *)
(***************************************************************************)
\* new_fire: the empty or smoke neighbours of the fire cells of g
NewFireChained(g) ==
    {n \in Cells :
        /\ g[n] \in {EMPTY, SMOKE}
        /\ \E i \in DOMAIN Neighbours(n) :
               LET m == Neighbours(n)[i]
               IN  \/ g[m] = FIRE
                   \/ /\ g[m] \in {EMPTY, SMOKE}
                      /\ \E k \in DOMAIN Neighbours(m) : g[Neighbours(m)[k]] = FIRE}

\* a fire that takes every neighbour cell, whatever it holds
NewFireBurnsAll(g) ==
    {n \in Cells : g[n] # FIRE
                   /\ \E i \in DOMAIN Neighbours(n) : g[Neighbours(n)[i]] = FIRE}

NewFire(g) ==
    {n \in Cells : g[n] \in {EMPTY, SMOKE}
                   /\ \E i \in DOMAIN Neighbours(n) : g[Neighbours(n)[i]] = FIRE}

\* new_smoke: the empty neighbours of the fire and smoke cells of g
NewSmoke(g) ==
    {n \in Cells : g[n] = EMPTY
                   /\ \E i \in DOMAIN Neighbours(n) : g[Neighbours(n)[i]] \in {FIRE, SMOKE}}

SpreadFire(g) == [c \in Cells |-> IF c \in NewFire(g) THEN FIRE ELSE g[c]]

SpreadSmoke(g) == [c \in Cells |-> IF c \in NewSmoke(g) THEN SMOKE ELSE g[c]]

spread_fire_and_smoke(g, tk) ==
    LET g1 == IF tk % FIRE_SPREAD_DELAY = 0 THEN SpreadFire(g) ELSE g
    IN  IF tk % SMOKE_SPREAD_DELAY = 0 THEN SpreadSmoke(g1) ELSE g1

(***************************************************************************)
(* The state of main(): its local variables, plus three counters kept for  *)
(* the model only (clicks, presses, keys), the record of what the stages   *)
(* of the last tick decided (last) and the record of the first tick of the *)
(* first run (first_run).                                                  *)
(***************************************************************************)
VARIABLES grid, temp_grid, agents, exits, dist_map, running_sim, mode, tick,
          exited_count, exited_injured_count, exited_fatally_injured_count,
          incapacitated_count, exposure, agent_data, agent_health,
          heat_exposure_ticks, selected_agent, show_menu, next_agent_id,
          show_global_menu, global_panic_value, clicks, presses, keys, last,
          first_run

layout_vars == <<grid, temp_grid, agents, exits, dist_map>>
tally_vars == <<exited_count, exited_injured_count, exited_fatally_injured_count,
                incapacitated_count>>
record_vars == <<exposure, agent_data, agent_health, heat_exposure_ticks>>
menu_vars == <<selected_agent, show_menu>>
panel_vars == <<show_global_menu, global_panic_value, keys>>

vars == <<grid, temp_grid, agents, exits, dist_map, running_sim, mode, tick,
          exited_count, exited_injured_count, exited_fatally_injured_count,
          incapacitated_count, exposure, agent_data, agent_health,
          heat_exposure_ticks, selected_agent, show_menu, next_agent_id,
          show_global_menu, global_panic_value, clicks, presses, keys, last,
          first_run>>

\* Python's None, for selected_agent
None == <<>>

\* dist_map is None until it is first computed
NoDistMap == [isNone |-> TRUE, d |-> [c \in Cells |-> INF]]

DistMapOf(ex, g) == [isNone |-> FALSE, d |-> compute_distance_map(ex, g)]

\* an empty dict
EmptyDict == [k \in {} |-> 0]

\* d[k] = v and del d[k] on a dict
Put(d, k, v) == [x \in DOMAIN d \cup {k} |-> IF x = k THEN v ELSE d[x]]

Del(d, k) == [x \in DOMAIN d \ {k} |-> d[x]]

\* list.remove(x): the first occurrence goes
ListRemove(s, x) ==
    IF x \notin Range(s) THEN s
    ELSE LET i == CHOOSE i \in DOMAIN s : s[i] = x /\ \A j \in 1 .. i - 1 : s[j] # x
         IN  [j \in 1 .. Len(s) - 1 |-> IF j < i THEN s[j] ELSE s[j + 1]]

\* {"smoke": 0, "fire": 0}
NoExposure == [smoke |-> 0, fire |-> 0]

\* what the stages of the last tick decided, for the agents as sorted at its
\* start (before); ran is FALSE when the last step ran no stage, and op names
\* the kind of the last step
NoTick ==
    [ran |-> FALSE, before |-> <<>>, incapacitated_idx |-> {}, intent |-> <<>>,
     winners_move |-> EmptyDict, removed_idx |-> {}, health |-> <<>>, op |-> "event"]

\* no first tick of a run has been recorded
NoRun == [set |-> FALSE, start |-> <<>>, draws |-> <<>>, after |-> <<>>]

Init ==
    /\ grid = [c \in Cells |-> EMPTY]
    /\ temp_grid = [c \in Cells |-> AMBIENT_TEMP]
    /\ agents = <<>>
    /\ exits = <<>>
    /\ dist_map = NoDistMap
    /\ running_sim = FALSE
    /\ mode = MODE_AGENT
    /\ tick = 0
    /\ exited_count = 0
    /\ exited_injured_count = 0
    /\ exited_fatally_injured_count = 0
    /\ incapacitated_count = 0
    /\ exposure = EmptyDict
    /\ agent_data = EmptyDict
    /\ agent_health = EmptyDict
    /\ heat_exposure_ticks = EmptyDict
    /\ selected_agent = None
    /\ show_menu = FALSE
    /\ show_global_menu = FALSE
    /\ global_panic_value = 5
    /\ keys = 0
    /\ next_agent_id = 1
    /\ clicks = 0
    /\ presses = 0
    /\ last = NoTick
    /\ first_run = NoRun

(***************************************************************************)
(* Keyboard handlers.                                                      *)
(***************************************************************************)
\* K_1 .. K_4 (modelled while an editing click remains: only clicks read mode)
KeyMode(m) ==
    /\ clicks < MaxClicks
    /\ mode' = m
    /\ last' = NoTick
    /\ UNCHANGED <<layout_vars, tally_vars, record_vars, menu_vars, panel_vars, first_run, running_sim,
                   tick, next_agent_id, clicks, presses>>

\* K_SPACE: a start resets the run's counters and records, a pause only stops
KeySpace ==
    /\ presses < MaxSpace
    /\ presses' = presses + 1
    /\ IF ~running_sim
       THEN /\ tick' = 0
            /\ exited_count' = 0
            /\ exited_injured_count' = 0
            /\ exited_fatally_injured_count' = 0
            /\ incapacitated_count' = 0
            /\ exposure' = [p \in Range(agents) |-> NoExposure]
            /\ agent_health' = [p \in Range(agents) |-> HEALTHY]
            /\ heat_exposure_ticks' = [p \in Range(agents) |-> 0]
            /\ dist_map' = IF exits # <<>> THEN DistMapOf(exits, grid) ELSE dist_map
       ELSE UNCHANGED <<tick, tally_vars, exposure, agent_health,
                        heat_exposure_ticks, dist_map>>
    /\ running_sim' = ~running_sim
    /\ last' = NoTick
    /\ UNCHANGED <<grid, temp_grid, agents, exits, agent_data, menu_vars, panel_vars, first_run, mode,
                   next_agent_id, clicks>>

\* K_r
KeyReset ==
    /\ grid' = [c \in Cells |-> EMPTY]
    /\ temp_grid' = [c \in Cells |-> AMBIENT_TEMP]
    /\ agents' = <<>>
    /\ exits' = <<>>
    /\ dist_map' = NoDistMap
    /\ running_sim' = FALSE
    /\ mode' = MODE_AGENT
    /\ tick' = 0
    /\ exited_count' = 0
    /\ exited_injured_count' = 0
    /\ exited_fatally_injured_count' = 0
    /\ incapacitated_count' = 0
    /\ exposure' = EmptyDict
    /\ agent_data' = EmptyDict
    /\ agent_health' = EmptyDict
    /\ heat_exposure_ticks' = EmptyDict
    /\ last' = NoTick
    /\ UNCHANGED <<menu_vars, panel_vars, first_run, next_agent_id, clicks, presses>>

(***************************************************************************)
(* MOUSEBUTTONDOWN, handled only while not running_sim; c is the clicked   *)
(* cell, in bounds.                                                        *)
(***************************************************************************)
\* the Remove button of the agent menu: a click inside remove_rect, which lies
\* in the window of any grid tall enough to show the menu
ClickRemove ==
    /\ ~running_sim
    /\ show_menu /\ selected_agent # None
    /\ agents' = ListRemove(agents, selected_agent)
    /\ agent_data' = Del(agent_data, selected_agent)
    /\ exposure' = Del(exposure, selected_agent)
    /\ agent_health' = Del(agent_health, selected_agent)
    /\ heat_exposure_ticks' = Del(heat_exposure_ticks, selected_agent)
    /\ selected_agent' = None
    /\ show_menu' = FALSE
    /\ last' = NoTick
    /\ UNCHANGED <<grid, temp_grid, exits, dist_map, tally_vars, running_sim, mode,
                   tick, next_agent_id, clicks, presses, panel_vars, first_run>>

\* a click on a cell that holds an agent opens its menu, whatever the mode
ClickSelect(c) ==
    /\ ~running_sim
    /\ c \in Range(agents)
    /\ selected_agent' = c
    /\ show_menu' = TRUE
    /\ last' = NoTick
    /\ UNCHANGED <<layout_vars, tally_vars, record_vars, running_sim, mode, tick,
                   next_agent_id, clicks, presses, panel_vars, first_run>>

\* line 480: the mode branches are reached only for a cell without an agent
ClickEdits(c) == ~running_sim /\ c \notin Range(agents) /\ clicks < MaxClicks

ClickWall(c) ==
    /\ ClickEdits(c)
    /\ mode = MODE_WALL
    /\ grid' = [grid EXCEPT ![c] = IF grid[c] = WALL THEN EMPTY ELSE WALL]
    /\ dist_map' = IF exits # <<>> THEN DistMapOf(exits, grid') ELSE dist_map
    /\ clicks' = clicks + 1
    /\ last' = NoTick
    /\ UNCHANGED <<temp_grid, agents, exits, tally_vars, record_vars, menu_vars, panel_vars, first_run,
                   running_sim, mode, tick, next_agent_id, presses>>

ClickExit(c) ==
    /\ ClickEdits(c)
    /\ mode = MODE_EXIT
    /\ grid[c] # WALL
    /\ IF grid[c] = EXIT
       THEN /\ grid' = [grid EXCEPT ![c] = EMPTY]
            /\ exits' = ListRemove(exits, c)
       ELSE /\ grid' = [grid EXCEPT ![c] = EXIT]
            /\ exits' = Append(exits, c)
    /\ dist_map' = DistMapOf(exits', grid')
    /\ clicks' = clicks + 1
    /\ last' = NoTick
    /\ UNCHANGED <<temp_grid, agents, tally_vars, record_vars, menu_vars, panel_vars, first_run,
                   running_sim, mode, tick, next_agent_id, presses>>

\* line 507: an agent is placed on any cell that is no wall
Placeable(c) == grid[c] # WALL

ClickAgent(c) ==
    /\ ClickEdits(c)
    /\ mode = MODE_AGENT
    /\ Placeable(c)
    /\ agents' = Append(agents, c)
    /\ agent_data' = Put(agent_data, c,
                         [id |-> next_agent_id, speed |-> FInt(1), age |-> 30, panic |-> 1])
    /\ exposure' = Put(exposure, c, NoExposure)
    /\ agent_health' = Put(agent_health, c, HEALTHY)
    /\ heat_exposure_ticks' = Put(heat_exposure_ticks, c, 0)
    /\ next_agent_id' = next_agent_id + 1
    /\ clicks' = clicks + 1
    /\ last' = NoTick
    /\ UNCHANGED <<grid, temp_grid, exits, dist_map, tally_vars, menu_vars, panel_vars, first_run,
                   running_sim, mode, tick, presses>>

ClickFire(c) ==
    /\ ClickEdits(c)
    /\ mode = MODE_FIRE
    /\ IF grid[c] = FIRE
       THEN /\ grid' = [grid EXCEPT ![c] = EMPTY]
            /\ temp_grid' = [temp_grid EXCEPT ![c] = AMBIENT_TEMP]
       ELSE /\ grid' = [grid EXCEPT ![c] = FIRE]
            /\ temp_grid' = [temp_grid EXCEPT ![c] = FIRE_TEMP]
    /\ clicks' = clicks + 1
    /\ last' = NoTick
    /\ UNCHANGED <<agents, exits, dist_map, tally_vars, record_vars, menu_vars, panel_vars, first_run,
                   running_sim, mode, tick, next_agent_id, presses>>

Edit ==
    \/ \E m \in {MODE_WALL, MODE_AGENT, MODE_EXIT, MODE_FIRE} : KeyMode(m)
    \/ KeySpace
    \/ KeyReset
    \/ ClickRemove
    \/ \E c \in Cells : ClickSelect(c)
    \/ \E c \in Cells : ClickWall(c)
    \/ \E c \in Cells : ClickExit(c)
    \/ \E c \in Cells : ClickAgent(c)
    \/ \E c \in Cells : ClickFire(c)

(***************************************************************************)
(* Stage 0: hazard exposure and injury, at the agents' current positions.  *)
(***************************************************************************)
\* float('inf') of a threshold triple
InfTicks == -1

\* n >= th, for a threshold that may be infinite
Reached(n, th) == th # InfTicks /\ n >= th

HEAT_THRESHOLDS ==
    << <<50, 240, 480, 720>>, <<60, 120, 240, 360>>, <<70, 68, 136, 204>>,
       <<80, 40, 80, 120>>, <<90, 26, 52, 78>>, <<100, 16, 32, 48>>,
       <<110, 11, 22, 32>>, <<120, 8, 16, 24>>, <<130, 5, 10, 16>>,
       <<140, 4, 8, 12>>, <<150, 3, 7, 10>>, <<160, 3, 5, 8>>,
       <<170, 2, 4, 7>>, <<180, 2, 3, 5>>, <<200, 1, 2, 3>>, <<250, 1, 1, 1>> >>

SMOKE_THRESHOLD == <<2, 3, 4>>

DIRECT_FLAME_THRESHOLDS == <<1, 1, 1>>

\* the first row of HEAT_THRESHOLDS, in list order, whose temperature temp reaches
get_heat_thresholds(temp) ==
    LET hits == {i \in DOMAIN HEAT_THRESHOLDS : FGeq(temp, FInt(HEAT_THRESHOLDS[i][1]))}
    IN  IF hits = {} THEN <<InfTicks, InfTicks, InfTicks>>
        ELSE LET i == CHOOSE i \in hits : \A j \in hits : i <= j
             IN  <<HEAT_THRESHOLDS[i][2], HEAT_THRESHOLDS[i][3], HEAT_THRESHOLDS[i][4]>>

\* one if / elif / elif block: health is the value read at line 585, cur the
\* value agent_health[key] holds when the block starts
CheckTripleUnguarded(health, cur, n, tr) ==
    IF Reached(n, tr[3]) THEN [h |-> INCAPACITATED, stop |-> TRUE]
    ELSE IF Reached(n, tr[2]) THEN [h |-> FATALLY_INJURED, stop |-> FALSE]
    ELSE IF Reached(n, tr[1]) THEN [h |-> INJURED, stop |-> FALSE]
    ELSE [h |-> cur, stop |-> FALSE]

CheckTriple(health, cur, n, tr) ==
    IF Reached(n, tr[3]) /\ health # INCAPACITATED
    THEN [h |-> INCAPACITATED, stop |-> TRUE]
    ELSE IF Reached(n, tr[2]) /\ health \in {HEALTHY, INJURED}
    THEN [h |-> FATALLY_INJURED, stop |-> FALSE]
    ELSE IF Reached(n, tr[1]) /\ health = HEALTHY
    THEN [h |-> INJURED, stop |-> FALSE]
    ELSE [h |-> cur, stop |-> FALSE]

\* lines 585-626: the three checks of one agent
HealthChecks(health, cell, exp, heat_ticks, temp) ==
    IF health = INCAPACITATED THEN [h |-> health, stop |-> FALSE]
    ELSE LET flame == IF cell = FIRE
                      THEN CheckTriple(health, health, exp.fire, DIRECT_FLAME_THRESHOLDS)
                      ELSE [h |-> health, stop |-> FALSE]
             smoke == CheckTriple(health, flame.h, exp.smoke, SMOKE_THRESHOLD)
         IN  IF flame.stop THEN flame
             ELSE IF smoke.stop THEN smoke
             ELSE CheckTriple(health, smoke.h, heat_ticks, get_heat_thresholds(temp))

\* lines 568-577: the exposure counters after one tick on a cell
ExposureAfterNoReset(exp, cell) ==
    IF cell = FIRE THEN [exp EXCEPT !.fire = @ + 1]
    ELSE IF cell = SMOKE THEN [exp EXCEPT !.smoke = @ + 1]
    ELSE exp

ExposureAfter(exp, cell) ==
    IF cell = FIRE THEN [smoke |-> 0, fire |-> exp.fire + 1]
    ELSE IF cell = SMOKE THEN [smoke |-> exp.smoke + 1, fire |-> 0]
    ELSE NoExposure

\* lines 580-583
HeatTicksAfter(n, temp) == IF FGeq(temp, SAFE_TEMP_THRESHOLD) THEN n + 1 ELSE 0

Get(d, k, default) == IF k \in DOMAIN d THEN d[k] ELSE default

\* the body of the Stage 0 loop for agent idx of ag; st holds the three dicts
\* and incapacitated_idx
Stage0Agent(st, ag, idx, g, t) ==
    LET key == ag[idx]
        exp == ExposureAfter(Get(st.exposure, key, NoExposure), g[key])
        ht == HeatTicksAfter(Get(st.heat_exposure_ticks, key, 0), t[key])
        health == Get(st.agent_health, key, HEALTHY)
        res == HealthChecks(health, g[key], exp, ht, t[key])
    IN  [exposure |-> Put(st.exposure, key, exp),
         heat_exposure_ticks |-> Put(st.heat_exposure_ticks, key, ht),
         agent_health |-> Put(st.agent_health, key, res.h),
         incapacitated_idx |-> IF res.stop THEN st.incapacitated_idx \cup {idx}
                               ELSE st.incapacitated_idx]

RECURSIVE Stage0(_, _, _, _, _)
Stage0(st, ag, idx, g, t) ==
    IF idx > Len(ag) THEN st
    ELSE Stage0(Stage0Agent(st, ag, idx, g, t), ag, idx + 1, g, t)

(***************************************************************************)
(* agents.sort(): tuples in lexicographic order.                           *)
(***************************************************************************)
CellLess(a, b) == a[1] < b[1] \/ (a[1] = b[1] /\ a[2] < b[2])

RECURSIVE SortCells(_)
SortCells(s) ==
    IF s = <<>> THEN <<>>
    ELSE LET rest == SortCells(Tail(s))
             x == Head(s)
             k == Cardinality({i \in DOMAIN rest : CellLess(rest[i], x)})
         IN  SubSeq(rest, 1, k) \o <<x>> \o SubSeq(rest, k + 1, Len(rest))

(***************************************************************************)
(* Stage 1: each agent declares an intended move.                          *)
(***************************************************************************)
\* line 647: a neighbour is a candidate when it is no wall and was free at the
\* start of the tick
CandidateIgnoresWalls(g, occupied, n) == n \notin occupied

Candidate(g, occupied, n) == g[n] # WALL /\ n \notin occupied

\* the candidates left in the order of the offsets
SortByDistKeepsOrder(s, d) == s

\* cands.sort(key=dist): a stable sort of the candidates by distance
RECURSIVE SortByDist(_, _)
SortByDist(s, d) ==
    IF s = <<>> THEN <<>>
    ELSE LET rest == SortByDist(Tail(s), d)
             x == Head(s)
             k == Cardinality({i \in DOMAIN rest : d[rest[i]] < d[x]})
         IN  SubSeq(rest, 1, k) \o <<x>> \o SubSeq(rest, k + 1, Len(rest))

Stay == [kind |-> "stay", to |-> <<>>]

NoIntent == [kind |-> "none", to |-> <<>>]

\* line 670: the chosen cell goes to the exit queue or to the normal targets
Routed(g, c) == [kind |-> IF g[c] = EXIT THEN "exit" ELSE "move", to |-> c]

\* lines 630-632: an agent incapacitated in Stage 0 declares nothing
SkipsStage1Never(idx, incapacitated) == FALSE

SkipsStage1(idx, incapacitated) == idx \in incapacitated

\* every intent agent idx may declare, over the outcomes of random.random()
\* and random.choice()
\* lines 639-641: the agent's own cell has no route to an exit
UnreachableNever(d, pos) == FALSE

Unreachable(d, pos) == d[pos] = INF

Intents(ag, idx, g, d, data, occupied, incapacitated) ==
    LET pos == ag[idx]
        cands == SortByDist(SelectSeq(Neighbours(pos),
                                      LAMBDA n : Candidate(g, occupied, n)), d)
        panic_lvl == IF pos \in DOMAIN data THEN data[pos].panic ELSE 0
        best == cands[1]
        byBest == IF d[best] < d[pos] THEN Routed(g, best) ELSE Stay
    IN  IF SkipsStage1(idx, incapacitated) THEN {NoIntent}
        ELSE IF g[pos] = EXIT THEN {[kind |-> "exit", to |-> pos]}
        ELSE IF Unreachable(d, pos) THEN {Stay}
        ELSE IF cands = <<>> THEN {Stay}
        ELSE (IF Len(cands) > 1 /\ panic_lvl > 0
              THEN {Routed(g, cands[i]) : i \in 2 .. Len(cands)} ELSE {})
             \cup (IF Len(cands) > 1 /\ panic_lvl >= 10 THEN {} ELSE {byBest})

\* the intent of every agent: one choice per agent
IntentChoices(ag, g, d, data, occupied, incapacitated) ==
    LET opts == [i \in DOMAIN ag |-> Intents(ag, i, g, d, data, occupied, incapacitated)]
    IN  {f \in [DOMAIN ag -> UNION {opts[i] : i \in DOMAIN ag}] :
            \A i \in DOMAIN ag : f[i] \in opts[i]}

\* normal_targets and exit_targets: the claimants of each target cell
Claimants(intent, kind, c) == {i \in DOMAIN intent : intent[i] = [kind |-> kind, to |-> c]}

Targets(intent, kind) == {intent[i].to : i \in {j \in DOMAIN intent : intent[j].kind = kind}}

(***************************************************************************)
(* Stage 2 and Stage 3: one winner per normal cell, at most the capacity   *)
(* through each exit; random.shuffle may put any claimant first.           *)
(***************************************************************************)
\* idxs[0] of a shuffled list (of the list itself when it has one element)
MoveWinnersAll(idxs) == {idxs}

MoveWinners(idxs) == {{i} : i \in idxs}

MoveWinnerChoices(intent) ==
    LET T == Targets(intent, "move")
    IN  {w \in [T -> SUBSET (DOMAIN intent)] :
            \A c \in T : w[c] \in MoveWinners(Claimants(intent, "move", c))}

\* idxs[:cap] of a shuffled list
ExitWinnersAll(idxs, cap) == {idxs}

ExitWinners(idxs, cap) ==
    {S \in SUBSET idxs : Cardinality(S) = IF Cardinality(idxs) < cap
                                          THEN Cardinality(idxs) ELSE cap}

ExitWinnerChoices(intent) ==
    LET T == Targets(intent, "exit")
    IN  {w \in [T -> SUBSET (DOMAIN intent)] :
            \A c \in T : w[c] \in ExitWinners(Claimants(intent, "exit", c),
                                              EXIT_CAPACITY_PER_TICK)}

(***************************************************************************)
(* Stage 4: the next agents list; the records move to the new positions.   *)
(***************************************************************************)
\* del d[pos] when pos is a key
Drop(d, pos, cond) == IF cond /\ pos \in DOMAIN d THEN Del(d, pos) ELSE d

\* the body of the Stage 4 loop for agent idx of ag
Stage4AgentLeavesRecords(st, ag, idx, removed, incapacitated, winners_move) ==
    LET pos == ag[idx]
        new_pos == IF idx \in DOMAIN winners_move THEN winners_move[idx] ELSE pos
    IN  IF idx \in removed THEN st
        ELSE IF idx \in incapacitated
        THEN [st EXCEPT !.incapacitated_count = @ + 1]
        ELSE [st EXCEPT !.new_agents = Append(@, new_pos),
                        !.new_exposure = Put(@, pos, Get(st.exposure, pos, NoExposure)),
                        !.new_agent_data = Put(@, pos, Get(st.agent_data, pos, <<>>)),
                        !.new_agent_health = Put(@, pos, Get(st.agent_health, pos, HEALTHY)),
                        !.new_heat_exposure_ticks =
                            Put(@, pos, Get(st.heat_exposure_ticks, pos, 0))]

\* a commit that drops an incapacitated agent without counting it
Stage4AgentDropsCasualty(st, ag, idx, removed, incapacitated, winners_move) ==
    LET pos == ag[idx]
        new_pos == IF idx \in DOMAIN winners_move THEN winners_move[idx] ELSE pos
    IN  IF idx \in removed \/ idx \in incapacitated THEN st
        ELSE [st EXCEPT !.new_agents = Append(@, new_pos),
                        !.new_exposure = Put(@, new_pos, Get(st.exposure, pos, NoExposure)),
                        !.new_agent_data = Put(@, new_pos, Get(st.agent_data, pos, <<>>)),
                        !.new_agent_health = Put(@, new_pos, Get(st.agent_health, pos, HEALTHY)),
                        !.new_heat_exposure_ticks =
                            Put(@, new_pos, Get(st.heat_exposure_ticks, pos, 0))]

Stage4Agent(st, ag, idx, removed, incapacitated, winners_move) ==
    LET pos == ag[idx]
        new_pos == IF idx \in DOMAIN winners_move THEN winners_move[idx] ELSE pos
        gone == [st EXCEPT !.exposure = Drop(@, pos, TRUE),
                           !.agent_data = Drop(@, pos, TRUE),
                           !.agent_health = Drop(@, pos, TRUE),
                           !.heat_exposure_ticks = Drop(@, pos, TRUE)]
    IN  IF idx \in removed THEN gone
        ELSE IF idx \in incapacitated
        THEN [gone EXCEPT !.incapacitated_count = @ + 1]
        ELSE [new_agents |-> Append(st.new_agents, new_pos),
              new_exposure |-> Put(st.new_exposure, new_pos,
                                   Get(st.exposure, pos, NoExposure)),
              exposure |-> Drop(st.exposure, pos, pos # new_pos),
              new_agent_data |-> IF pos \in DOMAIN st.agent_data
                                 THEN Put(st.new_agent_data, new_pos, st.agent_data[pos])
                                 ELSE st.new_agent_data,
              agent_data |-> Drop(st.agent_data, pos, pos # new_pos),
              new_agent_health |-> Put(st.new_agent_health, new_pos,
                                       Get(st.agent_health, pos, HEALTHY)),
              agent_health |-> Drop(st.agent_health, pos, pos # new_pos),
              new_heat_exposure_ticks |-> Put(st.new_heat_exposure_ticks, new_pos,
                                              Get(st.heat_exposure_ticks, pos, 0)),
              heat_exposure_ticks |-> Drop(st.heat_exposure_ticks, pos, pos # new_pos),
              incapacitated_count |-> st.incapacitated_count]

RECURSIVE Stage4(_, _, _, _, _, _)
Stage4(st, ag, idx, removed, incapacitated, winners_move) ==
    IF idx > Len(ag) THEN st
    ELSE Stage4(Stage4Agent(st, ag, idx, removed, incapacitated, winners_move),
                ag, idx + 1, removed, incapacitated, winners_move)

(***************************************************************************)
(* One frame of the loop while running_sim: lines 539-758.                 *)
(***************************************************************************)
\* Stage 3's tallies and Stage 4's commit, once the draws are made
Commit(ag, s0, intent, wm, we) ==
    \E removed \in {UNION {we[c] : c \in DOMAIN we}} :
    \E winners_move \in {[i \in UNION {wm[c] : c \in DOMAIN wm} |-> intent[i].to]} :
    \E health \in {[i \in DOMAIN ag |-> Get(s0.agent_health, ag[i], HEALTHY)]} :
    \E s4 \in {Stage4([new_agents |-> <<>>, new_exposure |-> EmptyDict,
                       new_agent_data |-> EmptyDict,
                       new_agent_health |-> EmptyDict,
                       new_heat_exposure_ticks |-> EmptyDict,
                       exposure |-> s0.exposure, agent_data |-> agent_data,
                       agent_health |-> s0.agent_health,
                       heat_exposure_ticks |-> s0.heat_exposure_ticks,
                       incapacitated_count |-> incapacitated_count],
                      ag, 1, removed, s0.incapacitated_idx, winners_move)} :
        /\ agents' = s4.new_agents
        /\ exposure' = s4.new_exposure
        /\ agent_data' = s4.new_agent_data
        /\ agent_health' = s4.new_agent_health
        /\ heat_exposure_ticks' = s4.new_heat_exposure_ticks
        /\ incapacitated_count' = s4.incapacitated_count
        /\ exited_count' = exited_count + Cardinality(removed)
        /\ exited_injured_count' = exited_injured_count
               + Cardinality({i \in removed : health[i] = INJURED})
        /\ exited_fatally_injured_count' = exited_fatally_injured_count
               + Cardinality({i \in removed : health[i] = FATALLY_INJURED})
        /\ last' = [ran |-> TRUE, before |-> ag,
                    incapacitated_idx |-> s0.incapacitated_idx,
                    intent |-> intent, winners_move |-> winners_move,
                    removed_idx |-> removed, health |-> health, op |-> "tick"]

\* a frame with running_sim set; a run of the model ends after maxT ticks
Frame(maxT) ==
    /\ running_sim
    /\ tick < maxT
    /\ tick' = tick + 1
    /\ \E g \in {spread_fire_and_smoke(grid, tick + 1)} :
       \E t \in {diffuse_temperature(temp_grid, g)} :
           /\ grid' = g
           /\ temp_grid' = t
           /\ IF dist_map.isNone
              THEN /\ UNCHANGED <<agents, tally_vars, record_vars>>
                   /\ last' = NoTick
              ELSE \E ag \in {SortCells(agents)} :
                   \E s0 \in {Stage0([exposure |-> exposure,
                                      agent_health |-> agent_health,
                                      heat_exposure_ticks |-> heat_exposure_ticks,
                                      incapacitated_idx |-> {}], ag, 1, g, t)} :
                   \E intent \in IntentChoices(ag, g, dist_map.d, agent_data,
                                               Range(ag), s0.incapacitated_idx) :
                   \E wm \in MoveWinnerChoices(intent) :
                   \E we \in ExitWinnerChoices(intent) :
                       Commit(ag, s0, intent, wm, we)
    /\ UNCHANGED <<exits, dist_map, running_sim, mode, menu_vars, panel_vars, next_agent_id,
                   clicks, presses>>

Tick == Frame(MaxTick) /\ UNCHANGED first_run

\* what a run starts from, the draws of the last tick and what a tick leaves
RunStart == <<grid, exits, agents, agent_data>>

RunDraws == <<last.intent, last.winners_move, last.removed_idx>>

RunState ==
    <<grid, agents, agent_health, exposure, heat_exposure_ticks, tally_vars>>

\* first_run keeps the first tick of the first run that is made
LongTick ==
    /\ Frame(RunTicks)
    /\ first_run' = IF tick = 0 /\ ~first_run.set
                    THEN [set |-> TRUE, start |-> RunStart, draws |-> RunDraws',
                          after |-> RunState']
                    ELSE first_run

(***************************************************************************)
(* K_l: load_layout and the load handler. The layout file is an input: a   *)
(* record of wall cells, fire cells, exit cells and agent cells, for a     *)
(* grid of the size of the running one.                                    *)
(***************************************************************************)
\* the layout files of Spec
Layouts ==
    {[walls |-> {}, fires |-> {},
      exits |-> << <<2, 0>> >>, agents |-> << <<1, 1>>, <<0, 0>> >>],
     [walls |-> {}, fires |-> {},
      exits |-> << <<1, 0>> >>, agents |-> << <<0, 0>>, <<2, 0>> >>],
     [walls |-> {<<1, 1>>}, fires |-> {<<0, 1>>},
      exits |-> << <<2, 0>> >>, agents |-> << <<0, 0>>, <<0, 1>> >>]}

\* the layout files of SpecRun: fire seeds, and agents that have no way out
RunLayouts ==
    {[walls |-> {<<1, 0>>, <<1, 1>>}, fires |-> {<<0, 1>>},
      exits |-> << <<2, 0>> >>, agents |-> << <<0, 0>> >>],
     [walls |-> {}, fires |-> {<<0, 0>>},
      exits |-> <<>>, agents |-> << <<2, 1>>, <<1, 0>> >>],
     [walls |-> {<<1, 1>>}, fires |-> {<<0, 0>>},
      exits |-> << <<2, 1>>, <<2, 0>> >>, agents |-> <<>>]}

\* load_layout: walls, then fires, then exits are written into an empty grid
LayoutGrid(lay) ==
    [c \in Cells |-> IF c \in Range(lay.exits) THEN EXIT
                     ELSE IF c \in lay.fires THEN FIRE
                     ELSE IF c \in lay.walls THEN WALL
                     ELSE EMPTY]

LoadLayout(lay) ==
    LET ag == SortCells(lay.agents)
    IN  /\ grid' = LayoutGrid(lay)
        /\ agents' = ag
        /\ exits' = lay.exits
        /\ running_sim' = FALSE
        /\ tick' = 0
        /\ exited_count' = 0
        /\ dist_map' = DistMapOf(lay.exits, LayoutGrid(lay))
        /\ agent_data' = [p \in Range(ag) |->
                            [id |-> CHOOSE i \in DOMAIN ag : ag[i] = p
                                        /\ \A j \in i + 1 .. Len(ag) : ag[j] # p,
                             speed |-> FInt(1), age |-> 30, panic |-> 5]]
        /\ exposure' = [p \in Range(ag) |-> NoExposure]
        /\ next_agent_id' = Len(ag) + 1
        /\ last' = NoTick
        /\ UNCHANGED <<temp_grid, exited_injured_count, exited_fatally_injured_count,
                       incapacitated_count, agent_health, heat_exposure_ticks,
                       menu_vars, panel_vars, first_run, mode, presses>>

\* K_l before anything else is done; the layout is not edited afterwards
KeyLoad(lay) ==
    /\ clicks = 0
    /\ clicks' = MaxClicks
    /\ LoadLayout(lay)

\* K_l at any time; the click budget is left for edits of the loaded layout
KeyReload(lay) ==
    /\ LoadLayout(lay)
    /\ UNCHANGED clicks

\* K_l when the layout file is missing: open() raises FileNotFoundError at
\* line 181, before load_layout returns and before the handler assigns
\* anything; the handler prints a message
KeyLoadMissingAfterReset ==
    /\ running_sim' = FALSE
    /\ tick' = 0
    /\ exited_count' = 0
    /\ last' = [NoTick EXCEPT !.op = "load_missing"]
    /\ UNCHANGED <<layout_vars, exited_injured_count, exited_fatally_injured_count,
                   incapacitated_count, record_vars, menu_vars, panel_vars, first_run, mode, next_agent_id,
                   clicks, presses>>

KeyLoadMissing ==
    /\ last' = [NoTick EXCEPT !.op = "load_missing"]
    /\ UNCHANGED <<layout_vars, tally_vars, record_vars, menu_vars, panel_vars, first_run, running_sim, mode,
                   tick, next_agent_id, clicks, presses>>

(***************************************************************************)
(* KEYDOWN: the panic and speed menus (lines 390-455). The arrow keys go   *)
(* to the global panic menu while it is shown, otherwise to the menu of    *)
(* the selected agent; neither looks at running_sim.                       *)
(***************************************************************************)
\* one menu key press out of MaxKeys; what no menu key touches
MenuKey ==
    /\ keys < MaxKeys
    /\ keys' = keys + 1
    /\ last' = NoTick
    /\ UNCHANGED <<layout_vars, tally_vars, exposure, agent_health, heat_exposure_ticks,
                   running_sim, mode, tick, next_agent_id, clicks, presses, first_run>>

\* K_m toggles the global panic menu
KeyGlobalMenu ==
    /\ MenuKey
    /\ show_global_menu' = ~show_global_menu
    /\ UNCHANGED <<agent_data, menu_vars, global_panic_value>>

\* K_UP or K_RIGHT in the global panic menu
GlobalPanicUp ==
    /\ MenuKey
    /\ show_global_menu
    /\ global_panic_value' = IF global_panic_value + 1 < 10 THEN global_panic_value + 1 ELSE 10
    /\ UNCHANGED <<agent_data, menu_vars, show_global_menu>>

\* K_DOWN or K_LEFT in the global panic menu
GlobalPanicDown ==
    /\ MenuKey
    /\ show_global_menu
    /\ global_panic_value' = IF global_panic_value - 1 > 0 THEN global_panic_value - 1 ELSE 0
    /\ UNCHANGED <<agent_data, menu_vars, show_global_menu>>

\* K_RETURN in the global panic menu: every agent gets the chosen level
GlobalPanicApply ==
    /\ MenuKey
    /\ show_global_menu
    /\ agent_data' = [pos \in DOMAIN agent_data |->
                         [agent_data[pos] EXCEPT !.panic = global_panic_value]]
    /\ show_global_menu' = FALSE
    /\ UNCHANGED <<menu_vars, global_panic_value>>

\* K_ESCAPE in the global panic menu
GlobalPanicClose ==
    /\ MenuKey
    /\ show_global_menu
    /\ show_global_menu' = FALSE
    /\ UNCHANGED <<agent_data, menu_vars, global_panic_value>>

\* the agent menu takes a key only when the global menu is not shown
AgentMenuOpen == ~show_global_menu /\ show_menu /\ selected_agent \in DOMAIN agent_data

\* K_UP in the agent menu
AgentPanicUp ==
    /\ MenuKey
    /\ AgentMenuOpen
    /\ \E p \in {agent_data[selected_agent].panic} :
          agent_data' = [agent_data EXCEPT
                            ![selected_agent].panic = IF p + 1 < 10 THEN p + 1 ELSE 10]
    /\ UNCHANGED <<menu_vars, show_global_menu, global_panic_value>>

\* K_DOWN in the agent menu
AgentPanicDown ==
    /\ MenuKey
    /\ AgentMenuOpen
    /\ \E p \in {agent_data[selected_agent].panic} :
          agent_data' = [agent_data EXCEPT
                            ![selected_agent].panic = IF p - 1 > 0 THEN p - 1 ELSE 0]
    /\ UNCHANGED <<menu_vars, show_global_menu, global_panic_value>>

\* K_RIGHT in the agent menu: speed += 0.1
AgentSpeedUp ==
    /\ MenuKey
    /\ AgentMenuOpen
    /\ agent_data' = [agent_data EXCEPT
                         ![selected_agent].speed = FAdd(@, FLit(1, 10))]
    /\ UNCHANGED <<menu_vars, show_global_menu, global_panic_value>>

\* K_LEFT in the agent menu: speed = max(0.1, speed - 0.1)
AgentSpeedDown ==
    /\ MenuKey
    /\ AgentMenuOpen
    /\ \E s \in {FSub(agent_data[selected_agent].speed, FLit(1, 10))} :
          agent_data' = [agent_data EXCEPT
                            ![selected_agent].speed =
                                IF FGt(s, FLit(1, 10)) THEN s ELSE FLit(1, 10)]
    /\ UNCHANGED <<menu_vars, show_global_menu, global_panic_value>>

\* K_ESCAPE in the agent menu
AgentMenuClose ==
    /\ MenuKey
    /\ AgentMenuOpen
    /\ show_menu' = FALSE
    /\ selected_agent' = None
    /\ UNCHANGED <<agent_data, show_global_menu, global_panic_value>>

MenuKeys ==
    \/ KeyGlobalMenu
    \/ GlobalPanicUp
    \/ GlobalPanicDown
    \/ GlobalPanicApply
    \/ GlobalPanicClose
    \/ AgentPanicUp
    \/ AgentPanicDown
    \/ AgentSpeedUp
    \/ AgentSpeedDown
    \/ AgentMenuClose

\* the layout file of SpecPanic: an agent walled off from the exit, with two
\* free neighbours
PanicLayouts ==
    { [walls |-> {<<1, 0>>, <<2, 1>>}, fires |-> {}, exits |-> << <<2, 0>> >>,
       agents |-> << <<0, 1>> >>] }

\* the layout file of SpecCrowd: an agent behind one that stands on the only
\* exit
CrowdLayouts ==
    { [walls |-> {}, fires |-> {}, exits |-> << <<1, 0>> >>,
       agents |-> << <<1, 0>>, <<1, 1>> >>] }

\* the layout file of SpecTally: a fire and an exit in a walled-off corner,
\* no agents
TallyLayouts ==
    { [walls |-> {<<2, 0>>, <<2, 1>>}, fires |-> {<<0, 0>>}, exits |-> << <<1, 1>> >>,
       agents |-> <<>>] }

TallyTick == Frame(TallyTicks) /\ UNCHANGED first_run

(***************************************************************************)
(* Specifications.                                                         *)
(***************************************************************************)
\* the editor and short runs
Next ==
    \/ Edit
    \/ \E lay \in Layouts : KeyLoad(lay)
    \/ Tick

Spec == Init /\ [][Next]_vars

\* a loaded layout, run for long enough that smoke and fire spread
NextRun ==
    \/ \E lay \in RunLayouts : KeyLoad(lay)
    \/ KeyLoadMissing
    \/ KeySpace
    \/ LongTick

SpecRun == Init /\ [][NextRun]_vars

\* a loaded layout whose panic levels and speeds are set in the menus
NextPanic ==
    \/ \E lay \in PanicLayouts : KeyLoad(lay)
    \/ \E c \in Cells : ClickSelect(c)
    \/ MenuKeys
    \/ KeySpace
    \/ Tick

SpecPanic == Init /\ [][NextPanic]_vars

\* two loaded agents at one exit, their panic levels set in the agent menu
NextCrowd ==
    \/ \E lay \in CrowdLayouts : KeyLoad(lay)
    \/ \E c \in Cells : ClickSelect(c)
    \/ AgentPanicUp
    \/ AgentPanicDown
    \/ KeySpace
    \/ Tick

SpecCrowd == Init /\ [][NextCrowd]_vars

\* a layout that is run until smoke has spread, paused, given agents, run
\* again and loaded again
NextTally ==
    \/ \E lay \in TallyLayouts : KeyReload(lay)
    \/ \E c \in Cells : ClickAgent(c)
    \/ KeySpace
    \/ TallyTick

SpecTally == Init /\ [][NextTally]_vars

(***************************************************************************)
(* Properties of the movement resolver. After a tick that ran the stages,  *)
(* last holds what they decided for the agents as sorted at its start.     *)
(***************************************************************************)
\* the agents of the last tick that are still active after its commit
Kept == DOMAIN last.before \ (last.removed_idx \cup last.incapacitated_idx)

\* where agent i of the last tick stands after the commit: new_agents is
\* appended to in the order of idx
PlaceAfter(i) == agents[Cardinality({j \in Kept : j <= i})]

\* C1: no two active agents occupy the same cell; after a tick every contested
\* normal cell has exactly one winner, which stands on it, the cell was free
\* at the start of the tick, and the losers stand where they stood
NoTwoAgentsShareCell ==
    /\ \A i, j \in DOMAIN agents : i # j => agents[i] # agents[j]
    /\ last.ran =>
         \A c \in Targets(last.intent, "move") :
             LET cl == Claimants(last.intent, "move", c)
                 won == cl \cap DOMAIN last.winners_move
             IN  /\ Cardinality(won) = 1
                 /\ c \notin Range(last.before)
                 /\ \A i \in won : PlaceAfter(i) = c
                 /\ \A i \in cl \ won : PlaceAfter(i) = last.before[i]

\* C1 witness: the last tick had a normal cell claimed by two agents
ContestedCell ==
    /\ last.ran
    /\ \E c \in Targets(last.intent, "move") :
           Cardinality(Claimants(last.intent, "move", c)) >= 2

\* C2: no active agent occupies a wall cell, and no intent of a tick targets
\* a wall cell
NoAgentOnWall ==
    /\ \A i \in DOMAIN agents : grid[agents[i]] # WALL
    /\ last.ran =>
         \A i \in DOMAIN last.intent :
             last.intent[i].kind \in {"move", "exit"} => grid[last.intent[i].to] # WALL

\* C2 witness: after a tick, an agent that has moved stands beside a wall cell
AgentMovedBesideWall ==
    /\ last.ran
    /\ \E i \in DOMAIN last.winners_move :
           \E k \in DOMAIN Neighbours(PlaceAfter(i)) :
               grid[Neighbours(PlaceAfter(i))[k]] = WALL

\* C3: of the claimants of an exit cell in a tick, at most
\* EXIT_CAPACITY_PER_TICK are removed as exited, the others stand where they
\* stood, and nobody is removed as exited who claimed no exit
ExitCapacityRespected ==
    last.ran =>
        /\ \A c \in Targets(last.intent, "exit") :
               LET cl == Claimants(last.intent, "exit", c)
                   admitted == cl \cap last.removed_idx
               IN  /\ Cardinality(admitted) <= EXIT_CAPACITY_PER_TICK
                   /\ \A i \in cl \ admitted : PlaceAfter(i) = last.before[i]
        /\ \A i \in last.removed_idx : last.intent[i].kind = "exit"

\* C3 witness: the last tick had an exit cell claimed by two agents
QueueAtExit ==
    /\ last.ran
    /\ \E c \in Targets(last.intent, "exit") :
           Cardinality(Claimants(last.intent, "exit", c)) >= 2

\* inside-count + cumulative exited + cumulative casualties
Accounted == Len(agents) + exited_count + incapacitated_count

\* C4: over SPACE, the editing clicks and the ticks (every step but K_r, K_l
\* and the Remove button), the accounted sum never decreases
AccountedNeverDecreases ==
    [][KeyReset \/ (\E lay \in Layouts : KeyLoad(lay)) \/ ClickRemove
          \/ Accounted' >= Accounted]_vars

\* C5: over a step that leaves every agent where it stands (a pause, a
\* resume, a tick without a move), no agent's health severity decreases
HealthNeverDecreases ==
    [][agents' = agents =>
          \A p \in Range(agents) \cap DOMAIN agent_health \cap DOMAIN agent_health' :
              agent_health'[p] >= agent_health[p]]_vars

\* C6: an agent incapacitated in a tick declares no intent in it, is not
\* active after the commit, adds exactly one to incapacitated_count, and is in
\* no exited tally
CasualtyLeavesAtOnce ==
    [][last'.ran =>
          LET inc == last'.incapacitated_idx
              out == last'.removed_idx
          IN  /\ \A i \in inc : /\ last'.intent[i] = NoIntent
                                /\ last'.before[i] \notin Range(agents')
                                /\ i \notin out
              /\ incapacitated_count' = incapacitated_count + Cardinality(inc)
              /\ exited_count' = exited_count + Cardinality(out \ inc)
              /\ exited_injured_count' - exited_injured_count
                     + exited_fatally_injured_count' - exited_fatally_injured_count
                 <= Cardinality(out \ inc)]_vars

\* C6 witness: the last tick incapacitated an agent while another stayed active
CasualtyInLastTick ==
    /\ last.ran
    /\ last.incapacitated_idx # {}
    /\ incapacitated_count > 0
    /\ Kept # {}

(***************************************************************************)
(* The distance field. ShortestField is the field the claims speak of: the *)
(* cells at k steps are the unreached non-wall neighbours of the cells at  *)
(* k - 1 steps.                                                            *)
(***************************************************************************)
RECURSIVE Flood(_, _, _, _)
Flood(g, d, frontier, k) ==
    IF frontier = {} THEN d
    ELSE LET nxt == {n \in Cells :
                        /\ g[n] # WALL
                        /\ d[n] = INF
                        /\ \E i \in DOMAIN Neighbours(n) : Neighbours(n)[i] \in frontier}
         IN  Flood(g, [c \in Cells |-> IF c \in nxt THEN k + 1 ELSE d[c]], nxt, k + 1)

ShortestField(g, S) == Flood(g, [c \in Cells |-> IF c \in S THEN 0 ELSE INF], S, 0)

RECURSIVE Reverse(_)
Reverse(s) == IF s = <<>> THEN <<>> ELSE Append(Reverse(Tail(s)), Head(s))

\* compute_distance_map on its own: every grid of the bounds, with the exit
\* cells listed in every order
MaxExits == 2

ExitLists ==
    {ex \in UNION {[1 .. n -> Cells] : n \in 0 .. MaxExits} :
        \A i, j \in DOMAIN ex : i # j => ex[i] # ex[j]}

InitDist ==
    /\ exits \in ExitLists
    /\ \E rest \in [Cells -> {EMPTY, WALL, FIRE, SMOKE}] :
           grid = [c \in Cells |-> IF c \in Range(exits) THEN EXIT ELSE rest[c]]
    /\ temp_grid = [c \in Cells |-> AMBIENT_TEMP]
    /\ agents = <<>>
    /\ dist_map = NoDistMap
    /\ running_sim = FALSE
    /\ mode = MODE_AGENT
    /\ tick = 0
    /\ exited_count = 0
    /\ exited_injured_count = 0
    /\ exited_fatally_injured_count = 0
    /\ incapacitated_count = 0
    /\ exposure = EmptyDict
    /\ agent_data = EmptyDict
    /\ agent_health = EmptyDict
    /\ heat_exposure_ticks = EmptyDict
    /\ selected_agent = None
    /\ show_menu = FALSE
    /\ show_global_menu = FALSE
    /\ global_panic_value = 5
    /\ keys = 0
    /\ next_agent_id = 1
    /\ clicks = 0
    /\ presses = 0
    /\ last = NoTick
    /\ first_run = NoRun

ComputeDistanceMap ==
    /\ dist_map.isNone
    /\ dist_map' = DistMapOf(exits, grid)
    /\ UNCHANGED <<grid, temp_grid, agents, exits, running_sim, mode, tick, tally_vars,
                   record_vars, menu_vars, panel_vars, first_run, next_agent_id, clicks, presses, last>>

NextDist == ComputeDistanceMap

SpecDist == InitDist /\ [][NextDist]_vars

\* C7: compute_distance_map gives 0 at the exits, the shortest 4-connected
\* step count through non-wall cells elsewhere, infinity where no exit is
\* reached, and the same field for the exits listed in the opposite order
DistanceMapIsShortest ==
    ~dist_map.isNone =>
        /\ dist_map.d = ShortestField(grid, Range(exits))
        /\ \A c \in Range(exits) : dist_map.d[c] = 0
        /\ compute_distance_map(Reverse(exits), grid) = dist_map.d

\* C7 witness: a computed field for two exits, with a wall, a non-wall cell
\* no exit is reached from, and a fire cell an exit is reached from
DistanceMapComputed ==
    /\ ~dist_map.isNone
    /\ Len(exits) = 2
    /\ \E c \in Cells : grid[c] = WALL
    /\ \E c \in Cells : grid[c] # WALL /\ dist_map.d[c] = INF
    /\ \E c \in Cells : grid[c] = FIRE /\ dist_map.d[c] < INF

\* C8: whenever the stages of a tick can run, the stored field is the
\* shortest-path field of the current grid, 0 exactly at the cells of type exit
StoredFieldIsCurrent ==
    (running_sim /\ ~dist_map.isNone) =>
        dist_map.d = ShortestField(grid, {c \in Cells : grid[c] = EXIT})

(***************************************************************************)
(* Fire and temperature.                                                   *)
(***************************************************************************)
\* C9: over a tick no fire cell stops being fire, and a cell that becomes
\* fire was empty or smoke and beside a fire cell in the grid before the tick
FireAdvancesOneCell ==
    [][tick' = tick + 1 =>
          \A c \in Cells :
              /\ grid[c] = FIRE => grid'[c] = FIRE
              /\ (grid[c] # FIRE /\ grid'[c] = FIRE) =>
                     /\ grid[c] \in {EMPTY, SMOKE}
                     /\ \E i \in DOMAIN Neighbours(c) : grid[Neighbours(c)[i]] = FIRE]_vars

\* C9 witness: the fire-spread event of tick FIRE_SPREAD_DELAY has ignited a
\* cell and left a cell further away unburnt
FireHasSpread ==
    /\ running_sim
    /\ tick = FIRE_SPREAD_DELAY
    /\ Cardinality({c \in Cells : grid[c] = FIRE}) >= 2
    /\ \E c \in Cells : grid[c] \in {EMPTY, SMOKE}

\* C10: every temperature lies in [AMBIENT_TEMP, FIRE_TEMP], and after a tick
\* every fire cell has FIRE_TEMP
TemperatureInRange ==
    \A c \in Cells :
        /\ FGeq(temp_grid[c], AMBIENT_TEMP)
        /\ FGeq(FIRE_TEMP, temp_grid[c])
        /\ (running_sim /\ tick > 0 /\ grid[c] = FIRE) => temp_grid[c] = FIRE_TEMP

(***************************************************************************)
(* Scenarios of the movement resolver.                                     *)
(***************************************************************************)
\* the grid holds one exit, at c, and nothing else
OnlyExitAt(c) ==
    /\ grid = [x \in Cells |-> IF x = c THEN EXIT ELSE EMPTY]
    /\ exits = <<c>>

\* C11: with one exit at (2,1) and one agent placed at (0,1) on an otherwise
\* empty grid, the agent is still inside after the first tick of the run and
\* has exited after the second, with exited_count = 1
LoneAgentExitsInTwoTicks ==
    [][(running_sim /\ OnlyExitAt(<<2, 1>>) /\ tick' = tick + 1) =>
          /\ (tick = 0 /\ agents = << <<0, 1>> >>) =>
                 (Len(agents') = 1 /\ exited_count' = 0)
          /\ (tick = 1 /\ last.ran /\ last.before = << <<0, 1>> >>) =>
                 (agents' = <<>> /\ exited_count' = 1)]_vars

\* the agents standing on a fire cell
OnFire == {i \in DOMAIN agents : grid[agents[i]] = FIRE}

\* C12: over a tick of a running simulation, every agent that stands on a
\* fire cell leaves the active agents, each is counted once in
\* incapacitated_count, and none of them is counted as exited
AgentOnFireIsIncapacitated ==
    [][(running_sim /\ tick' = tick + 1) =>
          /\ \A i \in OnFire : agents[i] \notin Range(agents')
          /\ incapacitated_count' >= incapacitated_count + Cardinality(OnFire)
          /\ exited_count' - exited_count <= Len(agents) - Cardinality(OnFire)]_vars

\* C13: with one exit at (1,0) and agents at (0,0) and (2,0) on an otherwise
\* empty grid, one agent exits in the first tick of the run and the other in
\* the second
TwoAgentsExitOneByOne ==
    [][(running_sim /\ OnlyExitAt(<<1, 0>>) /\ tick' = tick + 1) =>
          /\ (tick = 0 /\ agents = << <<0, 0>>, <<2, 0>> >>) =>
                 (Len(agents') = 1 /\ exited_count' = 1)
          /\ (tick = 1 /\ last.ran /\ last.before = << <<0, 0>>, <<2, 0>> >>) =>
                 (agents' = <<>> /\ exited_count' = 2)]_vars

\* C14: while running_sim is set, only a tick changes the layout, the agents,
\* their records or the tallies
EditsOnlyWhilePaused ==
    [][(running_sim /\ tick' # tick + 1) =>
          UNCHANGED <<grid, temp_grid, agents, exits, dist_map, tally_vars,
                      record_vars>>]_vars

(***************************************************************************)
(* Loading.                                                                *)
(***************************************************************************)
\* C15: a load request whose layout file is missing leaves the grid, the
\* temperatures, the agents, the exits, the distance field, the tallies, the
\* tick, the running flag and every per-agent record as they were
MissingLayoutChangesNothing ==
    [][last'.op = "load_missing" =>
          UNCHANGED <<layout_vars, tally_vars, record_vars, menu_vars, running_sim,
                      mode, tick, next_agent_id>>]_vars

\* C15 witness: the load was requested, and failed, while a simulation with
\* agents was running
LoadFailedWhileRunning ==
    /\ last.op = "load_missing"
    /\ running_sim
    /\ tick > 0
    /\ agents # <<>>
    /\ exited_count + incapacitated_count > 0

\* the cells an agent of the last tick could choose from, and whether one of
\* them is strictly nearer to an exit than the agent's own cell
BetterCandidate(i) ==
    \E k \in DOMAIN Neighbours(last.before[i]) :
        LET n == Neighbours(last.before[i])[k]
        IN  /\ Candidate(grid, Range(last.before), n)
            /\ dist_map.d[n] < dist_map.d[last.before[i]]

\* C20: an agent that does not stand on an exit and has no free neighbour
\* strictly nearer to an exit than its own cell declares no move, at every
\* panic level.
PanicMoveNeedsBetterCell ==
    last.ran =>
        \A i \in DOMAIN last.before :
            (grid[last.before[i]] # EXIT /\ ~BetterCandidate(i)) =>
                last.intent[i].kind \in {"stay", "none"}

\* the agents of the last tick that stood off every exit on a cell of
\* infinite distance
CutOff ==
    {i \in DOMAIN last.before :
        grid[last.before[i]] # EXIT /\ dist_map.d[last.before[i]] = INF}

\* C16: an agent that is not on an exit and whose distance value is infinite
\* declares no move in a tick, at every panic level and for every draw, and
\* unless a hazard incapacitates it, it stands after the tick where it stood.
CutOffAgentStays ==
    last.ran =>
        \A i \in CutOff :
            /\ last.intent[i].kind \in {"stay", "none"}
            /\ i \in Kept => PlaceAfter(i) = last.before[i]

\* C16 witness: a tick has run with a cut-off agent at panic 10 that had two
\* free neighbours to move to
CutOffAgentAtFullPanic ==
    /\ last.ran
    /\ \E i \in CutOff \cap Kept :
          /\ agent_data[PlaceAfter(i)].panic = 10
          /\ Cardinality({k \in DOMAIN Neighbours(last.before[i]) :
                 Candidate(grid, Range(last.before), Neighbours(last.before[i])[k])}) >= 2

\* the row of HEAT_THRESHOLDS with the highest breakpoint that temp reaches
BandTriple(temp) ==
    LET hits == {i \in DOMAIN HEAT_THRESHOLDS : FGeq(temp, FInt(HEAT_THRESHOLDS[i][1]))}
    IN  IF hits = {} THEN <<InfTicks, InfTicks, InfTicks>>
        ELSE LET i == CHOOSE i \in hits :
                          \A j \in hits : HEAT_THRESHOLDS[j][1] <= HEAT_THRESHOLDS[i][1]
             IN  <<HEAT_THRESHOLDS[i][2], HEAT_THRESHOLDS[i][3], HEAT_THRESHOLDS[i][4]>>

\* C18: for the temperature of every cell, get_heat_thresholds returns the
\* triple of the highest breakpoint of HEAT_THRESHOLDS that is at most the
\* temperature, and three infinite values below the lowest breakpoint.
HeatTripleOfHighestBand ==
    \A c \in Cells : get_heat_thresholds(temp_grid[c]) = BandTriple(temp_grid[c])

(***************************************************************************)
(* The Stage 0 loop body of one agent, tick after tick. The agent's        *)
(* records travel with it (Stage 4), so what one agent's health update     *)
(* sees over a run is a sequence of cell kinds and temperatures.           *)
(***************************************************************************)
\* the key of the agent
HealthKey == <<0, 0>>

\* the agent's cell in one tick: its kind and its temperature
Surroundings ==
    {<<EMPTY, AMBIENT_TEMP>>, <<EMPTY, FInt(60)>>, <<SMOKE, AMBIENT_TEMP>>,
     <<SMOKE, FInt(60)>>, <<FIRE, FIRE_TEMP>>}

\* a started run with one agent: the state after K_SPACE (lines 364-366)
InitHealth ==
    /\ grid = [c \in Cells |-> EMPTY]
    /\ temp_grid = [c \in Cells |-> AMBIENT_TEMP]
    /\ agents = <<HealthKey>>
    /\ exits = <<>>
    /\ dist_map = NoDistMap
    /\ running_sim = TRUE
    /\ mode = MODE_AGENT
    /\ tick = 0
    /\ exited_count = 0
    /\ exited_injured_count = 0
    /\ exited_fatally_injured_count = 0
    /\ incapacitated_count = 0
    /\ exposure = Put(EmptyDict, HealthKey, NoExposure)
    /\ agent_data = EmptyDict
    /\ agent_health = Put(EmptyDict, HealthKey, HEALTHY)
    /\ heat_exposure_ticks = Put(EmptyDict, HealthKey, 0)
    /\ selected_agent = None
    /\ show_menu = FALSE
    /\ show_global_menu = FALSE
    /\ global_panic_value = 5
    /\ keys = 0
    /\ next_agent_id = 1
    /\ clicks = 0
    /\ presses = 0
    /\ last = NoTick
    /\ first_run = NoRun

\* lines 557-626 for the agent, on a cell of kind sur[1] at temperature sur[2];
\* an incapacitated agent takes no further part
HealthUpdate(sur) ==
    /\ agent_health[HealthKey] # INCAPACITATED
    /\ grid' = [grid EXCEPT ![HealthKey] = sur[1]]
    /\ temp_grid' = [temp_grid EXCEPT ![HealthKey] = sur[2]]
    /\ \E st \in {Stage0Agent([exposure |-> exposure, agent_health |-> agent_health,
                                heat_exposure_ticks |-> heat_exposure_ticks,
                                incapacitated_idx |-> {}], agents, 1, grid', temp_grid')} :
          /\ exposure' = st.exposure
          /\ agent_health' = st.agent_health
          /\ heat_exposure_ticks' = st.heat_exposure_ticks
          /\ last' = [NoTick EXCEPT !.op = "stage0", !.before = agents,
                                    !.health = <<agent_health[HealthKey]>>,
                                    !.incapacitated_idx = st.incapacitated_idx]
    /\ UNCHANGED <<agents, exits, dist_map, tally_vars, agent_data, menu_vars, panel_vars, first_run,
                   running_sim, mode, tick, next_agent_id, clicks, presses>>

NextHealth == \E sur \in Surroundings : HealthUpdate(sur)

SpecHealth == InitHealth /\ [][NextHealth]_vars

\* the severity a check calls for when its counter is n and its triple is tr
Called(n, tr) ==
    IF Reached(n, tr[3]) THEN INCAPACITATED
    ELSE IF Reached(n, tr[2]) THEN FATALLY_INJURED
    ELSE IF Reached(n, tr[1]) THEN INJURED
    ELSE HEALTHY

FlameCall ==
    IF grid[HealthKey] = FIRE
    THEN Called(exposure[HealthKey].fire, DIRECT_FLAME_THRESHOLDS) ELSE HEALTHY

SmokeCall == Called(exposure[HealthKey].smoke, SMOKE_THRESHOLD)

HeatCall ==
    Called(heat_exposure_ticks[HealthKey], get_heat_thresholds(temp_grid[HealthKey]))

Severest(S) == CHOOSE h \in S : \A k \in S : k <= h

\* C19: after the health update of an agent, the stored severity is the
\* highest of its severity at the start of the tick and the severities the
\* direct flame, smoke and heat checks call for; no check replaces a higher
\* severity set by an earlier check of the same update.
SeverityIsHighestCalledFor ==
    last.op = "stage0" =>
        agent_health[HealthKey] =
            Severest({last.health[1], FlameCall, SmokeCall, HeatCall})

\* C19 witness: an injured agent whose smoke check set FATALLY_INJURED and
\* whose heat check, evaluated after it, called for INJURED only
LaterCheckCallsForLess ==
    /\ last.op = "stage0"
    /\ last.health[1] = INJURED
    /\ SmokeCall = FATALLY_INJURED
    /\ HeatCall = INJURED
    /\ agent_health[HealthKey] = FATALLY_INJURED

\* C17: a run that starts from the grid, exits, agents and agent data the
\* first run started from, and makes the draws the first run made, is after
\* its first tick in the state the first run was in after its first tick:
\* same grid, agent positions, health, exposure counters and tallies.
SameStartSameFirstTick ==
    [][(/\ tick = 0 /\ tick' = 1
        /\ first_run.set
        /\ first_run.start = RunStart
        /\ first_run.draws = RunDraws') => first_run.after = RunState']_vars

\* C21: in every tick of a running simulation, with or without exits, the
\* health update follows the hazard propagation of that tick: an agent that
\* stands after the tick where it stood before it has the exposure counters
\* and the heat counter that the cell kind and the temperature of its cell
\* after the propagation give (shown for ticks in which no agent moves or
\* leaves, where the cell of every record is known).
HealthUpdateFollowsPropagation ==
    [][(running_sim /\ tick' = tick + 1 /\ Range(agents') = Range(agents)) =>
          \A p \in Range(agents) :
              /\ Get(exposure', p, NoExposure) =
                     ExposureAfter(Get(exposure, p, NoExposure), grid'[p])
              /\ Get(heat_exposure_ticks', p, 0) =
                     HeatTicksAfter(Get(heat_exposure_ticks, p, 0), temp_grid'[p])]_vars

\* C22: a health update leaves the fire counter of the agent one above its
\* previous value on a fire cell and at 0 elsewhere, the smoke counter one
\* above its previous value on a smoke cell and at 0 elsewhere, and the heat
\* counter one above its previous value at a temperature of at least
\* SAFE_TEMP_THRESHOLD and at 0 below it; no counter is negative and the fire
\* and smoke counters are never both above 0.
CountersFollowTheCell ==
    [][last'.op = "stage0" =>
          /\ exposure'[HealthKey].fire =
                 IF grid'[HealthKey] = FIRE THEN exposure[HealthKey].fire + 1 ELSE 0
          /\ exposure'[HealthKey].smoke =
                 IF grid'[HealthKey] = SMOKE THEN exposure[HealthKey].smoke + 1 ELSE 0
          /\ heat_exposure_ticks'[HealthKey] =
                 IF FGeq(temp_grid'[HealthKey], SAFE_TEMP_THRESHOLD)
                 THEN heat_exposure_ticks[HealthKey] + 1 ELSE 0
          /\ exposure'[HealthKey].fire >= 0 /\ exposure'[HealthKey].smoke >= 0
          /\ heat_exposure_ticks'[HealthKey] >= 0
          /\ exposure'[HealthKey].fire = 0 \/ exposure'[HealthKey].smoke = 0]_vars

\* C22 witness: an update on a cell without smoke and below the safe
\* temperature has set back a smoke counter and a heat counter that had been
\* counting
CountersSetBack ==
    /\ last.op = "stage0"
    /\ grid[HealthKey] = EMPTY
    /\ ~FGeq(temp_grid[HealthKey], SAFE_TEMP_THRESHOLD)
    /\ last.health[1] = INJURED
    /\ exposure[HealthKey] = NoExposure
    /\ heat_exposure_ticks[HealthKey] = 0

\* C23: in every state, also after a reset, a load and a resume, the agents
\* tallied as exited injured or exited fatally injured are among the agents
\* tallied as exited: exited_injured_count + exited_fatally_injured_count is
\* at most exited_count.
InjuredExitsAreExits ==
    exited_injured_count + exited_fatally_injured_count <= exited_count

\* the agents of the last tick that have moved to another cell
Moved == {i \in Kept : i \in DOMAIN last.winners_move}

\* C24: at the commit of a tick every surviving agent keeps its own records:
\* the attribute record, the exposure counters, the heat counter and the
\* severity stored at its cell after the tick are those it had at its cell
\* of the start of the tick after that tick's health update, and there are
\* records for the surviving agents only.
RecordsFollowTheirAgent ==
    [][last'.ran =>
          /\ \A i \in Kept' :
                LET old == last'.before[i]
                    new == PlaceAfter(i)'
                IN  /\ new \in DOMAIN agent_data' /\ agent_data'[new] = agent_data[old]
                    /\ new \in DOMAIN exposure'
                    /\ exposure'[new] = ExposureAfter(Get(exposure, old, NoExposure),
                                                      grid'[old])
                    /\ new \in DOMAIN heat_exposure_ticks'
                    /\ heat_exposure_ticks'[new] =
                           HeatTicksAfter(Get(heat_exposure_ticks, old, 0), temp_grid'[old])
                    /\ new \in DOMAIN agent_health'
                    /\ agent_health'[new] = last'.health[i]
          /\ DOMAIN agent_data' = Range(agents')
          /\ DOMAIN exposure' = Range(agents')
          /\ DOMAIN heat_exposure_ticks' = Range(agents')
          /\ DOMAIN agent_health' = Range(agents')]_vars

\* C24 witness: a tick after which two agents with different attribute
\* records are inside, both on another cell than before it
TwoAgentsCarriedRecords ==
    /\ last.ran
    /\ Cardinality(Moved) = 2
    /\ \E i, j \in Moved : i # j /\ agent_data[PlaceAfter(i)] # agent_data[PlaceAfter(j)]

\* C25: a tick changes nothing of the sum inside + exited + casualties: when
\* the pipeline runs, the agents of the start of the tick fall into those
\* still inside, those removed as exited and those incapacitated, no agent in
\* two of them, and the three numbers change by the sizes of the three sets;
\* when it does not run, the agents and the two tallies stay as they were
TickKeepsEveryAgentAccounted ==
    [][(running_sim /\ tick' = tick + 1) =>
          /\ Accounted' = Accounted
          /\ IF last'.ran
             THEN LET inc == last'.incapacitated_idx
                      out == last'.removed_idx
                  IN  /\ Len(last'.before) = Len(agents)
                      /\ inc \cap out = {}
                      /\ inc \cup out \subseteq DOMAIN last'.before
                      /\ Len(agents') = Cardinality(Kept')
                      /\ exited_count' = exited_count + Cardinality(out)
                      /\ incapacitated_count' = incapacitated_count + Cardinality(inc)
             ELSE /\ agents' = agents
                  /\ exited_count' = exited_count
                  /\ incapacitated_count' = incapacitated_count]_vars

\* C25 witness: the last tick removed one agent as exited and incapacitated
\* another
ExitAndCasualtyInOneTick ==
    /\ last.ran
    /\ Len(last.before) = 2
    /\ last.removed_idx # {}
    /\ last.incapacitated_idx # {}

\* the cells of type exit of a grid
ExitCells(g) == {c \in Cells : g[c] = EXIT}

\* C26: a tick changes no wall cell and no exit cell and makes none: a cell it
\* changes was empty or smoke and is fire, or was empty and is smoke; the
\* exits list and the stored field stay; the field of the grid is the same
\* before and after, so a stored field that was the shortest-path field of the
\* grid before the tick is the one of the grid after it
HazardLeavesWallsAndExits ==
    [][tick' = tick + 1 =>
          /\ \A c \in Cells :
                /\ (grid[c] \in {WALL, EXIT} \/ grid'[c] \in {WALL, EXIT}) => grid'[c] = grid[c]
                /\ grid'[c] # grid[c] =>
                       \/ grid'[c] = FIRE /\ grid[c] \in {EMPTY, SMOKE}
                       \/ grid'[c] = SMOKE /\ grid[c] = EMPTY
          /\ exits' = exits
          /\ dist_map' = dist_map
          /\ compute_distance_map(exits', grid') = compute_distance_map(exits, grid)
          /\ (~dist_map.isNone /\ dist_map.d = ShortestField(grid, ExitCells(grid))) =>
                 dist_map'.d = ShortestField(grid', ExitCells(grid'))]_vars

\* C26 witness: after the fire-spread event, with smoke or fire beside a wall
\* cell and beside an exit cell, the stored field is the one of the grid
HazardBesideWallAndExit ==
    /\ running_sim
    /\ tick = FIRE_SPREAD_DELAY
    /\ \E c \in Cells : /\ grid[c] = WALL
                        /\ \E i \in DOMAIN Neighbours(c) : grid[Neighbours(c)[i]] = FIRE
    /\ \E c \in Cells : /\ grid[c] = EXIT
                        /\ \E i \in DOMAIN Neighbours(c) : grid[Neighbours(c)[i]] \in {FIRE, SMOKE}
    /\ ~dist_map.isNone
    /\ dist_map.d = ShortestField(grid, ExitCells(grid))
    /\ \E c \in Cells : grid[c] # WALL /\ dist_map.d[c] > 0 /\ dist_map.d[c] < INF

\* the layout file of SpecSpeed: two agents two steps from the exit, with
\* one cell between them and it
SpeedLayouts ==
    {[walls |-> {<<2, 1>>}, fires |-> {},
      exits |-> << <<2, 0>> >>, agents |-> << <<1, 1>>, <<0, 0>> >>]}

\* the speed keys taken in a behaviour of SpecSpeed
MaxSpeedKeys == 2

\* loaded agents whose speeds are set in the agent menu before or in a run
NextSpeed ==
    \/ \E lay \in SpeedLayouts : KeyLoad(lay)
    \/ \E c \in Cells : ClickSelect(c)
    \/ keys < MaxSpeedKeys /\ AgentSpeedUp
    \/ keys < MaxSpeedKeys /\ AgentSpeedDown
    \/ KeySpace
    \/ Tick

SpecSpeed == Init /\ [][NextSpeed]_vars

\* two cells that differ by one step of one coordinate
Adjacent(a, b) == \E i \in DOMAIN Neighbours(a) : Neighbours(a)[i] = b

\* the attribute records with every speed set to the initial 1.0
UnitSpeed(data) == [pos \in DOMAIN data |-> [data[pos] EXCEPT !.speed = FInt(1)]]

\* C27: after a tick every agent still inside stands where it stood or, as
\* the one winner of a cell, on a neighbour cell that is no wall and held no
\* agent at the start of the tick; the intents of the tick are among those
\* the same agents declare with every speed set to 1.0
OneStepIntoFreeCell ==
    [][last'.ran =>
          /\ \A i \in Kept' :
                LET old == last'.before[i]
                    new == PlaceAfter(i)'
                IN  \/ new = old /\ i \notin DOMAIN last'.winners_move
                    \/ /\ i \in DOMAIN last'.winners_move
                       /\ Adjacent(old, new)
                       /\ grid'[new] # WALL
                       /\ new \notin Range(last'.before)
          /\ last'.intent \in IntentChoices(last'.before, grid', dist_map.d,
                                            UnitSpeed(agent_data), Range(last'.before),
                                            last'.incapacitated_idx)]_vars

\* C27 witness: in the last tick an agent whose speed is above 1.0 moved one
\* cell, and another agent stayed beside the cell it left, which is nearer to
\* the exit than its own
StayedBesideVacatedCell ==
    /\ last.ran
    /\ \E i \in Kept : \E j \in Moved :
          /\ i # j
          /\ PlaceAfter(i) = last.before[i]
          /\ Adjacent(last.before[i], last.before[j])
          /\ last.before[j] \notin Range(agents)
          /\ dist_map.d[last.before[j]] < dist_map.d[last.before[i]]
          /\ FGt(agent_data[PlaceAfter(j)].speed, FInt(1))

(***************************************************************************)
(* Evacuation without hazards. The main loop runs a frame in every         *)
(* iteration while running_sim is set, so the tick is taken whenever it    *)
(* stays possible. The agents are calmed before the start, so that a calm  *)
(* run has all its EvacTicks ticks.                                        *)
(***************************************************************************)
\* the layout files of SpecEvac: two walls that cut the corner (0,0) off and
\* leave a way of two steps, and an open grid with the exit between two cells
EvacLayouts ==
    {[walls |-> {<<1, 0>>, <<0, 1>>}, fires |-> {},
      exits |-> << <<2, 0>> >>, agents |-> <<>>],
     [walls |-> {}, fires |-> {},
      exits |-> << <<1, 0>> >>, agents |-> <<>>]}

\* the panic keys taken in a behaviour of SpecEvac: one for each agent
MaxCalmKeys == 2

EvacTick == Frame(EvacTicks) /\ UNCHANGED first_run

\* a layout is loaded, agents are placed and calmed in the agent menu, and
\* the simulation is started
NextEvac ==
    \/ \E lay \in EvacLayouts : clicks = 0 /\ presses = 0 /\ KeyReload(lay)
    \/ \E c \in Cells : ClickAgent(c)
    \/ \E c \in Cells : ClickSelect(c)
    \/ ~running_sim /\ keys < MaxCalmKeys /\ AgentPanicDown
    \/ KeySpace
    \/ EvacTick

\* the frame of a running simulation: the one step that adds 1 to tick, and
\* possible as long as the run of the model has not ended
FrameDue == running_sim /\ tick < EvacTicks /\ tick' = tick + 1

SpecEvac == Init /\ [][NextEvac]_vars /\ WF_tick(FrameDue)

\* a running simulation without fire or smoke, every agent at panic 0, the
\* stored field the shortest-path field of the grid
CalmRun ==
    /\ running_sim
    /\ ~dist_map.isNone
    /\ dist_map.d = ShortestField(grid, ExitCells(grid))
    /\ \A c \in Cells : grid[c] \notin {FIRE, SMOKE}
    /\ \A p \in Range(agents) : p \in DOMAIN agent_data /\ agent_data[p].panic = 0

\* only agents with infinite distance are inside
OnlyCutOffInside == \A p \in Range(agents) : dist_map.d[p] = INF

\* C28: over a tick of a calm run no agent is incapacitated, no agent still
\* inside stands on a cell of larger distance than before, and while an agent
\* with finite distance is inside some agent exits or stands on a cell of
\* strictly smaller distance; and a calm run does not go on for ever with
\* an agent of finite distance inside
CalmRunEvacuates ==
    /\ [][(CalmRun /\ tick' = tick + 1) =>
            /\ last'.ran
            /\ last'.incapacitated_idx = {}
            /\ \A i \in Kept' : dist_map.d[PlaceAfter(i)'] <= dist_map.d[last'.before[i]]
            /\ (\E p \in Range(agents) : dist_map.d[p] < INF) =>
                   \/ last'.removed_idx # {}
                   \/ \E i \in Kept' :
                          dist_map.d[PlaceAfter(i)'] < dist_map.d[last'.before[i]]]_vars
    /\ []<>(~CalmRun \/ OnlyCutOffInside)

\* C28 witness: a calm run in which one agent has exited after a walk of two
\* ticks and the agent in the cut-off corner is the only one inside
CalmRunLeftTheCutOffAgent ==
    /\ CalmRun
    /\ last.ran
    /\ tick >= 2
    /\ last.removed_idx # {}
    /\ exited_count = 1
    /\ Len(agents) = 1
    /\ OnlyCutOffInside
    /\ incapacitated_count = 0

====
